---- MODULE Spec2Model ----
(***************************************************************************)
(* Model of the xmas-tree LED controller: the colour generator (gradient), *)
(* the two patterns and the mode scheduler, in both implementations of the *)
(* repository: the Node.js program (src/python/index.js, src/index.js) and  *)
(* the ESP32 sketch (src/unnamed/part_000).                                 *)
(*                                                                         *)
(* Numbers that the code keeps as floats are kept in fixed point with      *)
(* three decimals (0.3 is 300, a phase of 2 rad is 2000, a wave value of   *)
(* 1.0 is 1000).  The clock is driven by the sleeps alone: a sleep of d    *)
(* advances it by exactly d.                                               *)
(***************************************************************************)
EXTENDS Integers, Sequences, FiniteSets, TLC

VARIABLES impl,        \* "js" or "esp32": which program is running
          mainpc,      \* position of the scheduler: "boot", "call", "await", "tail"
          inflight,    \* pattern invocations suspended in a sleep
          activeMode,  \* activeMode / active_mode
          count,       \* count / pattern_count_var
          startTime,   \* startTime / mode_start_time
          clock,       \* new Date().getTime() / millis()
          buffer,      \* the pixel buffer (led_buffer), pixel -> <<r, g, b>>
          trace,       \* pixel-sink calls of the invocation started last
          ninv,        \* number of pattern invocations started so far
          nswitch,     \* number of mode switches so far
          prevMode,    \* active mode before the last mode switch
          gargs,       \* arguments of the call under test (gradient, leds_setColor,
                       \* the elapsed-time check) when a function is run on its own
          gres         \* its result (<<>> before the call)

vars == <<impl, mainpc, inflight, activeMode, count, startTime, clock, buffer,
          trace, ninv, nswitch, prevMode, gargs, gres>>

\* Strip length (LEDCOUNT is 100 in the code; the model runs a shorter strip).
LEDCOUNT == 2

\* The scheduler is followed until the clock passes this value.
MaxClock == 62500

MODE_SWITCH_INTERVAL == 30000

ORANGE == <<255, 25, 2>>
GRAY == <<180, 180, 180>>
BLACK == <<0, 0, 0>>

Pixels == 0 .. (LEDCOUNT - 1)

patterns == [m \in 0 .. 1 |-> IF m = 0 THEN "colorcycle_no_blue" ELSE "blink_random_slow"]

pattern_count == Cardinality(DOMAIN patterns)

Max(a, b) == IF a >= b THEN a ELSE b

Min(a, b) == IF a <= b THEN a ELSE b

----------------------------------------------------------------------------
\* sin, in fixed point: x in milliradians, result in -1000 .. 1000
\* (Bhaskara's rational approximation on each half period).
SinHalf(z) == LET p == (z * (3142 - z)) \div 1000
              IN  (16000 * p) \div (49360 - 4 * p)

Sin(x) == LET y == x % 6284
          IN  IF y <= 3142 THEN SinHalf(y) ELSE 0 - SinHalf(y - 3142)

\* sin(f * i + ph), with f, i and ph in thousandths
Wave(f, ph, i) == Sin((f * i) \div 1000 + ph)

\* (s * 0.5 + 0.5) * 255 * d as the fraction PreClampNum / 2000, s in thousandths
PreClampNum(s, d) == (s + 1000) * 255 * d

\* Math.floor(Math.max(v, 255)): the larger of v and 255, rounded down
ChannelJS(s, d) == Max(PreClampNum(s, d) \div 2000, 255)

\* (int)v truncates toward zero
Trunc(num, den) == IF num >= 0 THEN num \div den ELSE 0 - ((0 - num) \div den)

\* (uint8_t)constrain((int)v, 0, 255)
ChannelESP(s, d) == Min(Max(Trunc(PreClampNum(s, d), 2000), 0), 255)

Channel(i, s, d) == IF i = "js" THEN ChannelJS(s, d) ELSE ChannelESP(s, d)

\* gradient of the running implementation, from the three wave values
gradientOfWaves(i, s1, s2, s3, dr, dg, db) ==
    <<Channel(i, s1, dr), Channel(i, s2, dg), Channel(i, s3, db)>>

gradient(i, f1, f2, f3, ph1, ph2, ph3, x, dr, dg, db) ==
    gradientOfWaves(i, Wave(f1, ph1, x), Wave(f2, ph2, x), Wave(f3, ph3, x), dr, dg, db)

----------------------------------------------------------------------------
\* The pixel sink.  A call of the sink is an event; the buffer is what the calls
\* leave behind, and `trace` keeps the calls of the invocation started last.
leds_setColorWrapped(buf, index, col) == [buf EXCEPT ![index % LEDCOUNT] = col]

leds_setColor(buf, index, col) ==
    IF index < 0 \/ index >= LEDCOUNT THEN buf ELSE [buf EXCEPT ![index] = col]

SetEv(id, pat, index, col) ==
    [op |-> "set", by |-> id, pat |-> pat, idx |-> index, col |-> col, ms |-> 0, frame |-> <<>>]

RenderEv(id, pat, buf) ==
    [op |-> "render", by |-> id, pat |-> pat, idx |-> 0, col |-> <<>>, ms |-> 0, frame |-> buf]

SleepEv(id, pat, d) ==
    [op |-> "sleep", by |-> id, pat |-> pat, idx |-> 0, col |-> <<>>, ms |-> d, frame |-> <<>>]

\* leds_fill / leds.fill: one write to every pixel, in order
leds_fillShort(id, pat, col) == [k \in 1 .. (LEDCOUNT - 1) |-> SetEv(id, pat, k - 1, col)]

leds_fill(id, pat, col) == [k \in 1 .. LEDCOUNT |-> SetEv(id, pat, k - 1, col)]

\* The buffer after the writes of evs, in order
RECURSIVE Apply(_, _)
Apply(buf, evs) ==
    IF evs = <<>> THEN buf
    ELSE Apply(IF Head(evs).op = "set"
               THEN leds_setColor(buf, Head(evs).idx, Head(evs).col)
               ELSE buf,
               Tail(evs))

----------------------------------------------------------------------------
\* unsigned long of the ESP32 (32 bits).  A value u is kept as the integer with the
\* same 32 bits in two's complement: u itself below 2^31, u - 2^32 from 2^31 on.
\* The Node.js numbers are doubles and do not wrap.
INT32_MAX == 2147483647

\* a + d modulo 2^32, for 0 <= d <= INT32_MAX
AddU32(a, d) ==
    IF a > INT32_MAX - d THEN ((a - INT32_MAX) - 1) + ((d - INT32_MAX) - 1) ELSE a + d

\* a - b modulo 2^32
SubU32(a, b) ==
    IF a >= 0 /\ b < 0 /\ a > INT32_MAX + b
    THEN ((a - INT32_MAX) - 1) - ((b + INT32_MAX) + 1)
    ELSE IF a < 0 /\ b >= 0 /\ a < (b - INT32_MAX) - 1
         THEN ((a + INT32_MAX) + 1) - ((b - INT32_MAX) - 1)
         ELSE a - b

\* a > k as unsigned values, for 0 <= k <= INT32_MAX
GtU32(a, k) == a < 0 \/ a > k

\* millis() / new Date().getTime() after d more time units
TimeAfter(now, d) == IF impl = "esp32" THEN AddU32(now, d) ELSE now + d

\* Elapsed time of the mode-switch check: current_time - mode_start_time
Elapsed(now, start) == IF impl = "esp32" THEN SubU32(now, start) ELSE now - start

\* elapsed > MODE_SWITCH_INTERVAL
ExceedsInterval(e) ==
    IF impl = "esp32" THEN GtU32(e, MODE_SWITCH_INTERVAL) ELSE e > MODE_SWITCH_INTERVAL

\* count + 1 (the reduction modulo the strip length is commented out in the code)
NextCountModulo(c) == (c + 1) % LEDCOUNT

NextCount(c) == IF impl = "esp32" THEN AddU32(c, 1) ELSE c + 1

\* Where the scheduler stands after it has called a pattern: it waits for the
\* invocation to return (`await` in main, the blocking call in loop()).
AfterCallNoAwait == "tail"

AfterCall == "await"

\* The scheduler goes on when the invocation it waits for has returned.
Returned(pc) == IF pc = "await" THEN "tail" ELSE pc

\* The timer that fires next
Due(inv) == inv \in inflight /\ \A o \in inflight : inv.due <= o.due

\* Random choices of one blink_random_slow invocation: the indices that get the gray
\* colour, in order.  Node.js: the loop runs for n = 0, 1, 2.  ESP32: random(0, 3) times.
BlinkLoopNode == [1 .. 3 -> Pixels]

BlinkLoopESP == UNION {[1 .. n -> Pixels] : n \in 0 .. 2}

BlinkChoices(i) == IF i = "js" THEN BlinkLoopNode ELSE BlinkLoopESP

\* The gray writes of the blink loop
BlinkWrites(id, idxs) ==
    [k \in 1 .. Len(idxs) |-> SetEv(id, "blink_random_slow", idxs[k], GRAY)]

\* colour written to pixel j by colorcycle_no_blue(c)
CycleColorNoCount(i, j, c) == gradient(i, 300, 300, 300, 0, 2000, 3000, j * 100, 1, 1, 0)

CycleColor(i, j, c) == gradient(i, 300, 300, 300, 0, 2000, 3000, (j + c) * 100, 1, 1, 0)

\* the writes of the loop of colorcycle_no_blue(c)
CycleWrites(i, id, c) ==
    [k \in 1 .. LEDCOUNT |-> SetEv(id, "colorcycle_no_blue", k - 1, CycleColor(i, k - 1, c))]

\* The second half of blink_random_slow: fill again
BlinkRefillSkipped(id) == <<>>

BlinkRefill(id) == leds_fill(id, "blink_random_slow", ORANGE)

----------------------------------------------------------------------------
\* The modes the start-up or a switch may select: random(0, pattern_count),
\* Math.floor(Math.random() * modes.length)
SwitchTargetsOffByOne(cur) == 0 .. pattern_count

SwitchTargetsNext(cur) == {cur + 1}

SwitchTargets(cur) == 0 .. (pattern_count - 1)

Impls == {"js", "esp32"}

NoGradient == <<0, 0, 0, 0, 0, 0, 0, 0, 0, 0>>

Init ==
    /\ impl \in Impls
    /\ mainpc = "boot"
    /\ inflight = {}
    /\ activeMode \in (IF impl = "js" THEN SwitchTargets(0) ELSE {0})
    /\ count = 0
    /\ startTime = 0
    /\ clock = 0
    /\ buffer = [p \in Pixels |-> BLACK]
    /\ trace = <<>>
    /\ ninv = 0
    /\ nswitch = 0
    /\ prevMode = activeMode
    /\ gargs = NoGradient
    /\ gres = <<>>

\* setup() of the ESP32 sketch
setup ==
    /\ impl = "esp32" /\ mainpc = "boot"
    /\ buffer' = Apply(buffer, leds_fill(0, "setup", BLACK))
    /\ clock' = TimeAfter(clock, 1000)
    /\ \E m \in SwitchTargets(activeMode) : activeMode' = m
    /\ startTime' = clock'
    /\ mainpc' = "call"
    /\ UNCHANGED <<impl, inflight, count, trace, ninv, nswitch, prevMode, gargs, gres>>

\* main() of the Node.js program, up to the loop
main ==
    /\ impl = "js" /\ mainpc = "boot"
    /\ startTime' = clock
    /\ count' = 0
    /\ mainpc' = "call"
    /\ UNCHANGED <<impl, inflight, activeMode, clock, buffer, trace, ninv, nswitch,
                   prevMode, gargs, gres>>

\* patterns[0](count), up to its sleep
colorcycle_no_blue ==
    /\ mainpc = "call" /\ patterns[activeMode] = "colorcycle_no_blue"
    /\ clock < MaxClock
    /\ ninv' = ninv + 1
    /\ LET writes == CycleWrites(impl, ninv', count)
       IN  /\ buffer' = Apply(buffer, writes)
           /\ trace' = writes \o <<SleepEv(ninv', "colorcycle_no_blue", 100)>>
    /\ inflight' = inflight \cup {[id |-> ninv', pat |-> "colorcycle_no_blue",
                                    at |-> "sleep100", due |-> TimeAfter(clock, 100)]}
    /\ mainpc' = AfterCall
    /\ UNCHANGED <<impl, activeMode, count, startTime, clock, nswitch, prevMode, gargs, gres>>

\* patterns[0]: the sleep is over, render and return
colorcycle_no_blue_wake ==
    \E inv \in inflight :
        /\ Due(inv) /\ inv.pat = "colorcycle_no_blue"
        /\ clock' = inv.due
        /\ trace' = Append(trace, RenderEv(inv.id, inv.pat, buffer))
        /\ inflight' = inflight \ {inv}
        /\ mainpc' = Returned(mainpc)
        /\ UNCHANGED <<impl, activeMode, count, startTime, buffer, ninv, nswitch,
                       prevMode, gargs, gres>>

\* patterns[1](count), up to its first sleep
blink_random_slow ==
    /\ mainpc = "call" /\ patterns[activeMode] = "blink_random_slow"
    /\ clock < MaxClock
    /\ ninv' = ninv + 1
    /\ \E idxs \in BlinkChoices(impl) :
          LET writes == leds_fill(ninv', "blink_random_slow", ORANGE)
                          \o BlinkWrites(ninv', idxs)
          IN  /\ buffer' = Apply(buffer, writes)
              /\ trace' = writes \o <<RenderEv(ninv', "blink_random_slow", buffer'),
                                      SleepEv(ninv', "blink_random_slow", 10)>>
    /\ inflight' = inflight \cup {[id |-> ninv', pat |-> "blink_random_slow",
                                    at |-> "sleep10", due |-> TimeAfter(clock, 10)]}
    /\ mainpc' = AfterCall
    /\ UNCHANGED <<impl, activeMode, count, startTime, clock, nswitch, prevMode, gargs, gres>>

\* patterns[1]: after the sleep of 10, up to the sleep of 100
blink_random_slow_wake10 ==
    \E inv \in inflight :
        /\ Due(inv) /\ inv.pat = "blink_random_slow" /\ inv.at = "sleep10"
        /\ clock' = inv.due
        /\ buffer' = Apply(buffer, BlinkRefill(inv.id))
        /\ trace' = trace \o BlinkRefill(inv.id)
                          \o <<RenderEv(inv.id, inv.pat, buffer'),
                               SleepEv(inv.id, inv.pat, 100)>>
        /\ inflight' = (inflight \ {inv})
                          \cup {[inv EXCEPT !.at = "sleep100", !.due = TimeAfter(clock', 100)]}
        /\ UNCHANGED <<impl, mainpc, activeMode, count, startTime, ninv, nswitch,
                       prevMode, gargs, gres>>

\* patterns[1]: after the sleep of 100, return
blink_random_slow_wake100 ==
    \E inv \in inflight :
        /\ Due(inv) /\ inv.pat = "blink_random_slow" /\ inv.at = "sleep100"
        /\ clock' = inv.due
        /\ inflight' = inflight \ {inv}
        /\ mainpc' = Returned(mainpc)
        /\ UNCHANGED <<impl, activeMode, count, startTime, buffer, trace, ninv, nswitch,
                       prevMode, gargs, gres>>

\* The mode-switch condition
\* the elapsed time taken in seconds
SwitchDueSeconds(now, start) == ExceedsInterval(Elapsed(now, start) \div 1000)

\* the comparison against a deadline instead of the elapsed time
SwitchDueDeadline(now, start) ==
    IF impl = "esp32"
    THEN LET deadline == AddU32(start, MODE_SWITCH_INTERVAL)
         IN  IF (now < 0) = (deadline < 0) THEN now > deadline ELSE now < 0
    ELSE now > start + MODE_SWITCH_INTERVAL

\* the comparison with >= in place of >
SwitchDueAtLeast(now, start) == ExceedsInterval(Elapsed(now, start) + 1)

SwitchDue(now, start) == ExceedsInterval(Elapsed(now, start))

\* The rest of the loop body when no switch is due
loop_tail_keep ==
    /\ mainpc = "tail"
    /\ count' = NextCount(count)
    /\ ~SwitchDue(clock, startTime)
    /\ mainpc' = "call"
    /\ UNCHANGED <<impl, inflight, activeMode, startTime, clock, buffer, trace, ninv,
                   nswitch, prevMode, gargs, gres>>

\* The rest of the loop body when a switch is due
loop_tail_switch ==
    /\ mainpc = "tail"
    /\ count' = NextCount(count)
    /\ SwitchDue(clock, startTime)
    /\ startTime' = clock
    /\ \E m \in SwitchTargets(activeMode) : activeMode' = m
    /\ prevMode' = activeMode
    /\ nswitch' = nswitch + 1
    /\ mainpc' = "call"
    /\ UNCHANGED <<impl, inflight, clock, buffer, trace, ninv, gargs, gres>>

Next ==
    \/ setup
    \/ main
    \/ colorcycle_no_blue
    \/ colorcycle_no_blue_wake
    \/ blink_random_slow
    \/ blink_random_slow_wake10
    \/ blink_random_slow_wake100
    \/ loop_tail_keep
    \/ loop_tail_switch

Spec == Init /\ [][Next]_vars

----------------------------------------------------------------------------
\* The three programs from their start.  src/index.js is the Node.js program with
\* channel.count in place of LEDCOUNT; it reads `channel`, which nothing declares,
\* in its sixth line, before main is defined: the read throws and the process ends.
Programs == Impls \cup {"index.js"}

InitStartup ==
    /\ impl \in Programs
    /\ mainpc = "boot"
    /\ inflight = {}
    /\ activeMode \in (IF impl = "js" THEN SwitchTargets(0) ELSE {0})
    /\ count = 0
    /\ startTime = 0
    /\ clock = 0
    /\ buffer = [p \in Pixels |-> BLACK]
    /\ trace = <<>>
    /\ ninv = 0
    /\ nswitch = 0
    /\ prevMode = activeMode
    /\ gargs = NoGradient
    /\ gres = <<>>

\* src/index.js, lines 1 to 6: const rgbBlackAll = channel.array.map(() => 0)
load_index_js ==
    /\ impl = "index.js" /\ mainpc = "boot"
    /\ mainpc' = "crashed"
    /\ UNCHANGED <<impl, inflight, activeMode, count, startTime, clock, buffer, trace,
                   ninv, nswitch, prevMode, gargs, gres>>

NextStartup == Next \/ load_index_js

SpecStartup == InitStartup /\ [][NextStartup]_vars

----------------------------------------------------------------------------
\* leds_setColor on its own: one call on a buffer, with an index from
\* MaxIndexSlack below the strip to MaxIndexSlack above it.
MaxIndexSlack == 2

SinkColors == {BLACK, ORANGE, GRAY}

SinkInputs ==
    {<<buf, index, col>> :
        buf \in [Pixels -> SinkColors],
        index \in (0 - MaxIndexSlack) .. (LEDCOUNT - 1 + MaxIndexSlack),
        col \in SinkColors}

InitSink ==
    /\ impl = "esp32"
    /\ mainpc = "boot"
    /\ inflight = {}
    /\ activeMode = 0
    /\ count = 0
    /\ startTime = 0
    /\ clock = 0
    /\ gargs \in SinkInputs
    /\ buffer = gargs[1]
    /\ trace = <<>>
    /\ ninv = 0
    /\ nswitch = 0
    /\ prevMode = 0
    /\ gres = <<>>

leds_setColor_call ==
    /\ gres = <<>>
    /\ buffer' = leds_setColor(buffer, gargs[2], gargs[3])
    /\ gres' = <<"returned">>
    /\ UNCHANGED <<impl, mainpc, inflight, activeMode, count, startTime, clock,
                   trace, ninv, nswitch, prevMode, gargs>>

NextSink == leds_setColor_call

SpecSink == InitSink /\ [][NextSink]_vars

----------------------------------------------------------------------------
\* The elapsed-time check of loop() on its own: mode_start_time is drawn from
\* values below the wrap of the 32-bit clock (and below 2^31, and after boot), the
\* time that really passed since then from ElapsedSamples, and the check is made
\* at current_time = mode_start_time + that time, modulo 2^32.
MaxWrapStep == 7

ElapsedSamples == {0, 10, 100, 110, 29900, 30000, 30001, 30030, 30100, 31000, 60000}

ModeStarts ==
    {0, 1000} \cup {(0 - 1) - k * 5000 : k \in 0 .. MaxWrapStep}
              \cup {INT32_MAX - k * 5000 : k \in 0 .. MaxWrapStep}

InitElapsed ==
    /\ impl = "esp32"
    /\ mainpc = "tail"
    /\ inflight = {}
    /\ activeMode = 0
    /\ count = 0
    /\ gargs \in {<<start, e>> : start \in ModeStarts, e \in ElapsedSamples}
    /\ startTime = gargs[1]
    /\ clock = startTime
    /\ buffer = [p \in Pixels |-> BLACK]
    /\ trace = <<>>
    /\ ninv = 0
    /\ nswitch = 0
    /\ prevMode = 0
    /\ gres = <<>>

\* lines 179 and 180 of loop(): current_time = millis(); the comparison
elapsed_check ==
    /\ gres = <<>>
    /\ clock' = TimeAfter(clock, gargs[2])
    /\ gres' = <<Elapsed(clock', startTime), SwitchDue(clock', startTime)>>
    /\ UNCHANGED <<impl, mainpc, inflight, activeMode, count, startTime, buffer,
                   trace, ninv, nswitch, prevMode, gargs>>

NextElapsed == elapsed_check

SpecElapsed == InitElapsed /\ [][NextElapsed]_vars

----------------------------------------------------------------------------
\* The colour generator on its own: gradient called once with arguments drawn
\* from a grid.  The input i runs over MaxWaveStep steps of half a unit, which with
\* a frequency of 0.3 sweeps more than a full period of each channel.
MaxWaveStep == 42

Multipliers == {0 - 1, 0, 1, 2}

GradientInputs ==
    {<<300, 300, 300, 0, 2000, 3000, k * 500, dr, dg, db>> :
        k \in 0 .. MaxWaveStep, dr \in Multipliers, dg \in Multipliers, db \in Multipliers}

InitGradient ==
    /\ impl \in Impls
    /\ mainpc = "boot"
    /\ inflight = {}
    /\ activeMode = 0
    /\ count = 0
    /\ startTime = 0
    /\ clock = 0
    /\ buffer = [p \in Pixels |-> BLACK]
    /\ trace = <<>>
    /\ ninv = 0
    /\ nswitch = 0
    /\ prevMode = 0
    /\ gargs \in GradientInputs
    /\ gres = <<>>

gradient_call ==
    /\ gres = <<>>
    /\ gres' = gradient(impl, gargs[1], gargs[2], gargs[3], gargs[4], gargs[5], gargs[6],
                        gargs[7], gargs[8], gargs[9], gargs[10])
    /\ UNCHANGED <<impl, mainpc, inflight, activeMode, count, startTime, clock, buffer,
                   trace, ninv, nswitch, prevMode, gargs>>

NextGradient == gradient_call

SpecGradient == InitGradient /\ [][NextGradient]_vars

----------------------------------------------------------------------------
\* Helpers of the properties below
SetsOf(t) == {k \in 1 .. Len(t) : t[k].op = "set"}

RendersOf(t) == {k \in 1 .. Len(t) : t[k].op = "render"}

GrayWrites(t) == Cardinality({k \in SetsOf(t) : t[k].col = GRAY})

AllOrange(buf) == \A p \in Pixels : buf[p] = ORANGE

\* The invocation started last was of pattern pat, and it has returned
ReturnedFrom(pat) == mainpc = "tail" /\ inflight = {} /\ trace # <<>> /\ trace[1].pat = pat

\* C1: in every state (before and after start-up, during every pattern invocation,
\* after every switch of modes) the active mode is an index of the pattern table:
\* 0 <= activeMode < pattern_count.
C1_ActiveModeInRange ==
    /\ activeMode \in 0 .. (pattern_count - 1)
    /\ activeMode \in DOMAIN patterns

\* C1 witness: a pattern invocation is suspended after a switch of modes.
C1_Witness == nswitch >= 1 /\ mainpc = "await" /\ inflight # {}

\* C2: while a pattern invocation is suspended in a sleep it is the only one, the
\* scheduler is waiting for it, and the step taken from there starts no invocation,
\* leaves the counter, the active mode and the mode start time alone, and every call
\* of the pixel sink on record is a call of that invocation.
C2_OneInvocationInFlight ==
    [][inflight # {} =>
         /\ Cardinality(inflight) = 1
         /\ mainpc = "await"
         /\ ninv' = ninv /\ count' = count
         /\ activeMode' = activeMode /\ startTime' = startTime /\ nswitch' = nswitch
         /\ \A inv \in inflight : \A k \in 1 .. Len(trace') : trace'[k].by = inv.id]_vars

\* C2 witness: the second invocation or a later one is suspended in the second sleep
\* of blink_random_slow.
C2_Witness ==
    /\ ninv >= 2
    /\ \E inv \in inflight : inv.pat = "blink_random_slow" /\ inv.at = "sleep100"

\* C3: the clock is never 31000 or more past the mode start time: before it gets
\* there, a switch of modes has reset the mode start time.
C3_SwitchWithin31000 == clock - startTime < 31000

\* C3 witness: a switch has just been made, more than 30000 after the mode start
\* it ends, and the scheduler is about to call the next pattern.
C3_Witness == nswitch >= 1 /\ mainpc = "call" /\ clock = startTime /\ clock > 30000

\* C4 (the claim as stated): an invocation of blink_random_slow makes at most two
\* writes of the gray colour.
C4_AtMostTwoGray ==
    (trace # <<>> /\ trace[1].pat = "blink_random_slow") => GrayWrites(trace) <= 2

\* C5 (the claim as stated): every colour written by colorcycle_no_blue has a blue
\* channel of 0.
C5_BlueIsZero ==
    \A k \in SetsOf(trace) : trace[k].pat = "colorcycle_no_blue" => trace[k].col[3] = 0

\* floor((s * 0.5 + 0.5) * 255 * d) for the wave value of channel c of gargs
WaveOf(c) == Wave(gargs[c], gargs[3 + c], gargs[7])

SineGradient(c) == ((WaveOf(c) + 1000) * 255 * gargs[7 + c]) \div 2000

\* C6 (the claim as stated): with multipliers in {0, 1} every channel of the result
\* is floor((s * 0.5 + 0.5) * 255 * d), the clamp changing nothing.
C6_FollowsSine ==
    (gres # <<>> /\ \A c \in 1 .. 3 : gargs[7 + c] \in {0, 1})
        => \A c \in 1 .. 3 : gres[c] = SineGradient(c)

\* C7 (the claim as stated): for all inputs, negative and greater-than-1 multipliers
\* included, every channel of the result is in 0 .. 255.
C7_ChannelsAreBytes == gres # <<>> => \A c \in 1 .. 3 : gres[c] \in 0 .. 255

\* C8: when an invocation of blink_random_slow has returned, the calls it made are,
\* in order: a write of orange to every pixel, the gray writes, a render, a sleep of
\* 10, a write of orange to every pixel, a render of an all-orange frame, a sleep of
\* 100; the buffer is all orange; and with no blink chosen no gray was written.
C8_BlinkFrames ==
    ReturnedFrom("blink_random_slow") =>
        LET n == LEDCOUNT
            r1 == CHOOSE k \in RendersOf(trace) : \A o \in RendersOf(trace) : k <= o
        IN  /\ Cardinality(RendersOf(trace)) = 2
            /\ r1 > n /\ Len(trace) = r1 + n + 3
            /\ \A k \in 1 .. n :
                   /\ trace[k].op = "set" /\ trace[k].idx = k - 1 /\ trace[k].col = ORANGE
                   /\ trace[r1 + 1 + k].op = "set" /\ trace[r1 + 1 + k].idx = k - 1
                   /\ trace[r1 + 1 + k].col = ORANGE
            /\ \A k \in (n + 1) .. (r1 - 1) :
                   trace[k].op = "set" /\ trace[k].col = GRAY /\ trace[k].idx \in Pixels
            /\ \A p \in Pixels : trace[r1].frame[p] \in {ORANGE, GRAY}
            /\ trace[r1 + 1].op = "sleep" /\ trace[r1 + 1].ms = 10
            /\ trace[r1 + n + 2].op = "render" /\ AllOrange(trace[r1 + n + 2].frame)
            /\ trace[r1 + n + 3].op = "sleep" /\ trace[r1 + n + 3].ms = 100
            /\ AllOrange(buffer)
            /\ (r1 = n + 1 => GrayWrites(trace) = 0)

\* C8 witness: an invocation of blink_random_slow has returned that had turned a
\* pixel gray in its first frame.
C8_Witness ==
    /\ ReturnedFrom("blink_random_slow")
    /\ \E k \in RendersOf(trace) : \E p \in Pixels : trace[k].frame[p] = GRAY

\* C9: an invocation of colorcycle_no_blue(count) makes, in order, one write to each
\* pixel j = 0 .. N-1 of the gradient at (j + count) * 0.1, a sleep of 100, and,
\* after the sleep, one render: while it sleeps nothing is rendered yet, and when it
\* has returned the render is the last call.
C9_CycleOrder ==
    (trace # <<>> /\ trace[1].pat = "colorcycle_no_blue") =>
        LET n == LEDCOUNT
        IN  /\ Len(trace) \in {n + 1, n + 2}
            /\ \A k \in 1 .. n :
                   /\ trace[k].op = "set" /\ trace[k].idx = k - 1
                   /\ (mainpc \in {"await", "tail"} =>
                          trace[k].col = gradient(impl, 300, 300, 300, 0, 2000, 3000,
                                                  (k - 1 + count) * 100, 1, 1, 0))
            /\ trace[n + 1].op = "sleep" /\ trace[n + 1].ms = 100
            /\ (inflight # {} => Len(trace) = n + 1)
            /\ (inflight = {} => Len(trace) = n + 2 /\ trace[n + 2].op = "render"
                                 /\ trace[n + 2].frame = buffer
                                 /\ \A p \in Pixels : buffer[p] = trace[p + 1].col)

\* C9 witness: an invocation of colorcycle_no_blue with a counter above 0 has
\* returned.
C9_Witness == ReturnedFrom("colorcycle_no_blue") /\ count > 0 /\ impl = "esp32"

\* C10 (the claim as stated): after a switch of modes the active mode differs from
\* the mode that was active before it.
C10_SwitchChangesMode == nswitch >= 1 => activeMode # prevMode

\* C10 (amended): a switch of modes selects any index of the pattern table, the
\* index that was active before it included.
C10_SwitchSelectsAnyMode ==
    [][nswitch' # nswitch =>
         /\ activeMode' \in 0 .. (pattern_count - 1)
         /\ prevMode' = activeMode]_vars

\* C10 witness: a switch of modes has selected the mode that was active before it.
C10_Witness == nswitch >= 1 /\ activeMode = prevMode /\ mainpc = "call" /\ clock = startTime

\* C11 (the claim as stated): no program of the repository has a terminal state:
\* as long as the clock is within the horizon of the model, a step of the program
\* is possible (start-up goes on to the scheduler loop, a returned invocation is
\* followed by the next one).
C11_NoTerminalState == clock >= MaxClock \/ ENABLED NextStartup

\* C12: a call of leds_setColor with an index below 0 or from N on returns and
\* leaves the buffer as it was; a call with an index in 0 .. N-1 sets that pixel to
\* the colour given and leaves every other pixel as it was.
C12_OutOfRangeIgnored ==
    gres # <<>> =>
        /\ DOMAIN buffer = Pixels
        /\ \A p \in Pixels :
              buffer[p] = IF p = gargs[2] THEN gargs[3] ELSE gargs[1][p]
        /\ (gargs[2] \notin Pixels => buffer = gargs[1])

\* C12 witness: a call with an index from N on, and a colour no pixel of the buffer
\* had, has returned.
C12_Witness ==
    /\ gres # <<>> /\ gargs[2] >= LEDCOUNT
    /\ \A p \in Pixels : gargs[1][p] # gargs[3]

\* C14: once the scheduler loop runs, a step changes the active mode or the mode
\* start time (or counts as a switch) only from the check made right after a pattern
\* invocation has returned, with more than 30000 elapsed since the mode start time;
\* it then sets the mode start time to the current time, so that the new mode start
\* is more than 30000 after the previous one; with 30000 or less elapsed at the
\* check, the mode and the mode start time stay as they are.
C14_SwitchOnlyWhenDue ==
    [][mainpc # "boot" =>
         /\ (activeMode' # activeMode \/ startTime' # startTime \/ nswitch' # nswitch) =>
               /\ mainpc = "tail" /\ inflight = {}
               /\ clock - startTime > 30000
               /\ startTime' = clock /\ clock' = clock
               /\ nswitch' = nswitch + 1
               /\ startTime' - startTime > 30000
         /\ (mainpc = "tail" /\ clock - startTime <= 30000) =>
               /\ activeMode' = activeMode /\ startTime' = startTime
               /\ nswitch' = nswitch]_vars

\* C14 witness: two switches of modes have been made, one after the other.
C14_Witness == nswitch >= 2 /\ mainpc = "call"

\* C15: the counter is 0 until the first invocation has returned; the step that
\* starts the k-th invocation finds the counter at k - 1 and leaves it alone; the
\* counter changes only in the step after an invocation has returned, and that step
\* adds exactly 1, with or without a switch of modes.
C15_CounterCountsInvocations ==
    [][/\ (ninv = 0 => count = 0)
       /\ (ninv' # ninv => ninv' = ninv + 1 /\ count = ninv /\ count' = count)
       /\ (count' # count => mainpc = "tail" /\ inflight = {})
       /\ (mainpc = "tail" => count' = count + 1)]_vars

\* C15 witness: an invocation runs after a switch of modes, with the counter at the
\* number of invocations made before it, far above the strip length.
C15_Witness == nswitch >= 1 /\ mainpc = "await" /\ count = ninv - 1 /\ count > 270

\* C16: in every frame rendered, every pixel has the colour of the last write made
\* to it by the invocation that renders, before the render.
C16_RenderedPixelsAreFresh ==
    \A k \in RendersOf(trace) : \A p \in Pixels :
        \E j \in 1 .. (k - 1) :
            /\ trace[j].op = "set" /\ trace[j].idx = p /\ trace[j].by = trace[k].by
            /\ \A l \in (j + 1) .. (k - 1) : ~(trace[l].op = "set" /\ trace[l].idx = p)
            /\ trace[k].frame[p] = trace[j].col

\* C16 witness: blink_random_slow has rendered as the first pattern after a switch
\* away from colorcycle_no_blue, whose colours were in the buffer.
C16_Witness ==
    /\ nswitch >= 1 /\ patterns[prevMode] = "colorcycle_no_blue"
    /\ trace # <<>> /\ trace[1].pat = "blink_random_slow" /\ RendersOf(trace) # {}
    /\ ninv = count + 1 /\ clock - startTime < 100

\* C17 (the claim as stated): on the same arguments the gradient of the ESP32 sketch
\* and the gradient of the Node.js program return the same colour.
C17_ClampsAgree ==
    gres # <<>> =>
        gradient("esp32", gargs[1], gargs[2], gargs[3], gargs[4], gargs[5], gargs[6],
                 gargs[7], gargs[8], gargs[9], gargs[10])
          = gradient("js", gargs[1], gargs[2], gargs[3], gargs[4], gargs[5], gargs[6],
                     gargs[7], gargs[8], gargs[9], gargs[10])

\* C18: the elapsed time the ESP32 check computes is the time that really passed
\* since the mode start, also when the clock has wrapped in between, and the check
\* calls for a switch exactly when more than 30000 really passed.
C18_ElapsedSurvivesWrap ==
    gres # <<>> => (gres[1] = gargs[2] /\ (gres[2] <=> gargs[2] > 30000))

\* C18 witness: the clock has wrapped between the mode start and the check, and
\* the check calls for a switch.
C18_Witness == gres # <<>> /\ startTime < 0 /\ clock >= 0 /\ clock < 30000 /\ gres[2]

====
